---- MODULE Spec2Model ----
(***************************************************************************)
(* zipline/utils/date_utils.py: the trading-day calendar (a dateutil       *)
(* rrule with cache=True inside an rruleset with the holidays as exdates), *)
(* the quarter utilities and the epoch utilities.                          *)
(*                                                                         *)
(* Time.  A naive datetime of the calendar is an integer number of ticks:  *)
(* day * TicksPerDay + time-of-day, day 0 being Monday 2007-12-31, so that *)
(* datetime(2008, 1, 1) (new_years) is tick DT(1, 0).  Time-of-day 0 is    *)
(* midnight.  datetime comparison is integer comparison of ticks.          *)
(***************************************************************************)
EXTENDS Integers, Sequences, FiniteSets, TLC

VARIABLES
    dtstart,    \* rule._dtstart: datetime.now() when the module was loaded
    cache,      \* rule._cache: the occurrences materialised so far
    gen,        \* rule._cache_gen: the next day the rule's generator examines
    lock,       \* rule._cache_lock: TRUE while held
    pc,         \* per caller: where its trading_days call stands
    args,       \* per caller: [after, before, inc] of the call in progress
    idx,        \* per caller: i of _iter_cached
    fill,       \* per caller: j of the "for j in range(10)" loop
    item,       \* per caller: the value gen.next() returned, not yet appended
    started,    \* per caller: started of between
    l,          \* per caller: l of between, the result list
    extended,   \* per caller: this call appended to the cache
    first,      \* demonstration: result and cache after the first of two identical calls
    qdt,        \* quarter utilities: the datetime given to get_quarter
    qnum,       \* quarter utilities: <<get_quarter's result>>, once computed
    qdates,     \* quarter utilities: dates_of_quarter's result
    ts,         \* epoch utilities: <<the datetime given to EPOCH>>, in microseconds from UNIX_EPOCH
    ms,         \* epoch utilities: <<EPOCH's result>>, once computed
    back        \* epoch utilities: <<UN_EPOCH's result>>, in microseconds from UNIX_EPOCH

calvars == <<dtstart, cache, gen, lock, pc, args, idx, fill, item, started, l, extended, first>>
qvars == <<qdt, qnum, qdates>>
evars == <<ts, ms, back>>
vars == <<calvars, qvars, evars>>

---------------------------------------------------------------------------
(* Bounds of the model *)

TicksPerDay == 2
MaxAnchorDay == 2
MaxNearDay == 3
FarDay == 12
MaxConcDay == 1
YearSpan == 2
MaxSec == 1
MaxMs == 5

(* dateutil materialises the cache of a cache=True rule ten occurrences at a time *)
CacheBatch == 10

Threads == {1, 2}
None == <<>>

---------------------------------------------------------------------------
(* Datetimes *)

DT(d, t) == d * TicksPerDay + t
Day(x) == x \div TicksPerDay
Tod(x) == x % TicksPerDay

\* datetime.weekday(): Monday is 0, Sunday is 6
weekday(x) == Day(x) % 7

\* rrule.MO .. rrule.FR
WEEKDAYS == 0 .. 4

\* The holidays are datetimes at midnight; days counted from 2007-12-31.
HOLIDAYS ==
    { DT(1, 0), DT(21, 0), DT(49, 0), DT(81, 0), DT(147, 0),
      DT(186, 0), DT(245, 0), DT(332, 0), DT(360, 0) }

---------------------------------------------------------------------------
(* rule = rrule(DAILY, byweekday=WEEKDAYS, cache=True) *)

\* The rule's generator walks the days from dtstart on and yields those whose
\* weekday is in byweekday, each at dtstart's time of day.
NextMatch_NoFilter(d) == d

RECURSIVE NextMatch(_)
NextMatch(d) == IF d % 7 \in WEEKDAYS THEN d ELSE NextMatch(d + 1)

\* _iter_cached: "if i == len(cache)" -- the cache must grow before cache[i] is read
NeedsFill_Always(i, c) == i >= 0

NeedsFill(i, c) == i = Len(c)

\* _cache_lock.acquire() returns once the lock is free
CanAcquire_NoLock(lk) == TRUE

CanAcquire(lk) == lk = FALSE

---------------------------------------------------------------------------
(* rs = rruleset(); rs.rrule(rule); rs.exdate(holiday) for each holiday *)

\* rruleset._iter drops an occurrence when it equals the head of the sorted
\* exdate list: equality of datetimes, time of day included.
Excluded(x) == x \in HOLIDAYS

\* rrulebase.between: the body of "for i in gen", for the item x.
BetweenStep_StartFirst(x, q, st, acc) ==
    IF (IF q.inc THEN x >= q.after ELSE x > q.after) /\ ~st
    THEN [brk |-> FALSE, started |-> TRUE, l |-> Append(acc, x)]
    ELSE IF (IF q.inc THEN x > q.before ELSE x >= q.before)
         THEN [brk |-> TRUE, started |-> st, l |-> acc]
         ELSE [brk |-> FALSE, started |-> st, l |-> IF st THEN Append(acc, x) ELSE acc]

BetweenStep_LateStop(x, q, st, acc) ==
    IF x > q.before + 2 * TicksPerDay
    THEN [brk |-> TRUE, started |-> st, l |-> acc]
    ELSE [brk |-> FALSE, started |-> st, l |-> acc]

BetweenStep_IncAlways(x, q, st, acc) ==
    IF x > q.before
    THEN [brk |-> TRUE, started |-> st, l |-> acc]
    ELSE IF ~st
         THEN IF x >= q.after
              THEN [brk |-> FALSE, started |-> TRUE, l |-> Append(acc, x)]
              ELSE [brk |-> FALSE, started |-> FALSE, l |-> acc]
         ELSE [brk |-> FALSE, started |-> TRUE, l |-> Append(acc, x)]

BetweenStep(x, q, st, acc) ==
    IF q.inc
    THEN IF x > q.before
         THEN [brk |-> TRUE, started |-> st, l |-> acc]
         ELSE IF ~st
              THEN IF x >= q.after
                   THEN [brk |-> FALSE, started |-> TRUE, l |-> Append(acc, x)]
                   ELSE [brk |-> FALSE, started |-> FALSE, l |-> acc]
              ELSE [brk |-> FALSE, started |-> TRUE, l |-> Append(acc, x)]
    ELSE IF x >= q.before
         THEN [brk |-> TRUE, started |-> st, l |-> acc]
         ELSE IF ~st
              THEN IF x > q.after
                   THEN [brk |-> FALSE, started |-> TRUE, l |-> Append(acc, x)]
                   ELSE [brk |-> FALSE, started |-> FALSE, l |-> acc]
              ELSE [brk |-> FALSE, started |-> TRUE, l |-> Append(acc, x)]

---------------------------------------------------------------------------
(* The queries the callers make *)

NearTimes == { DT(d, t) : d \in 0 .. MaxNearDay, t \in 0 .. TicksPerDay - 1 }
FarTimes == { DT(FarDay, t) : t \in 0 .. TicksPerDay - 1 }
AnchorTimes == { DT(d, t) : d \in 0 .. MaxAnchorDay, t \in 0 .. TicksPerDay - 1 }

Queries ==
    [after : NearTimes, before : NearTimes \cup FarTimes, inc : BOOLEAN]

ConcQueries ==
    [after : {DT(0, 0)},
     before : { DT(d, 0) : d \in 1 .. 1 + MaxConcDay },
     inc : BOOLEAN]

---------------------------------------------------------------------------
(* Module load: lines 146-173 *)

CalInit ==
    /\ dtstart \in AnchorTimes
    /\ cache = <<>>
    /\ gen = Day(dtstart)
    /\ lock = FALSE
    /\ pc = [t \in Threads |-> "idle"]
    /\ args = [t \in Threads |-> None]
    /\ idx = [t \in Threads |-> 0]
    /\ fill = [t \in Threads |-> 0]
    /\ item = [t \in Threads |-> None]
    /\ started = [t \in Threads |-> FALSE]
    /\ l = [t \in Threads |-> <<>>]
    /\ extended = [t \in Threads |-> FALSE]
    /\ first = None

QIdle == qdt = None /\ qnum = None /\ qdates = None
EIdle == ts = None /\ ms = None /\ back = None

Init == CalInit /\ QIdle /\ EIdle

\* The module loaded on the first day of the window
InitConc == Init /\ Day(dtstart) = 0

---------------------------------------------------------------------------
(* trading_days(after, before, inclusive) = rs.between(after, before, inc) *)

\* The call: between starts iterating rs, which starts iterating the rule's cache.
Call(t, Q) ==
    /\ pc[t] = "idle"
    /\ \E q \in Q : args' = [args EXCEPT ![t] = q]
    /\ idx' = [idx EXCEPT ![t] = 0]
    /\ started' = [started EXCEPT ![t] = FALSE]
    /\ l' = [l EXCEPT ![t] = <<>>]
    /\ extended' = [extended EXCEPT ![t] = FALSE]
    /\ pc' = [pc EXCEPT ![t] = "next"]
    /\ UNCHANGED <<dtstart, cache, gen, lock, fill, item, first, qvars, evars>>

\* _iter_cached: while gen: if i == len(cache): ...
CacheCheck(t) ==
    /\ pc[t] = "next"
    /\ pc' = [pc EXCEPT ![t] = IF NeedsFill(idx[t], cache) THEN "acquire" ELSE "yield"]
    /\ UNCHANGED <<dtstart, cache, gen, lock, args, idx, fill, item, started, l,
                   extended, first, qvars, evars>>

\* acquire()
Acquire(t) ==
    /\ pc[t] = "acquire"
    /\ CanAcquire(lock)
    /\ lock' = TRUE
    /\ fill' = [fill EXCEPT ![t] = 0]
    /\ pc' = [pc EXCEPT ![t] = "fetch"]
    /\ UNCHANGED <<dtstart, cache, gen, args, idx, item, started, l, extended,
                   first, qvars, evars>>

\* gen.next(): the rule's generator yields its next occurrence
Fetch(t) ==
    /\ pc[t] = "fetch"
    /\ item' = [item EXCEPT ![t] = DT(NextMatch(gen), Tod(dtstart))]
    /\ gen' = NextMatch(gen) + 1
    /\ pc' = [pc EXCEPT ![t] = "append"]
    /\ UNCHANGED <<dtstart, cache, lock, args, idx, fill, started, l, extended,
                   first, qvars, evars>>

\* cache.append(...), and the end of "for j in range(10)"
AppendItem(t) ==
    /\ pc[t] = "append"
    /\ cache' = Append(cache, item[t])
    /\ item' = [item EXCEPT ![t] = None]
    /\ fill' = [fill EXCEPT ![t] = fill[t] + 1]
    /\ extended' = [extended EXCEPT ![t] = TRUE]
    /\ pc' = [pc EXCEPT ![t] = IF fill[t] + 1 = CacheBatch THEN "release" ELSE "fetch"]
    /\ UNCHANGED <<dtstart, gen, lock, args, idx, started, l, first, qvars, evars>>

\* release()
Release(t) ==
    /\ pc[t] = "release"
    /\ lock' = FALSE
    /\ fill' = [fill EXCEPT ![t] = 0]
    /\ pc' = [pc EXCEPT ![t] = "yield"]
    /\ UNCHANGED <<dtstart, cache, gen, args, idx, item, started, l, extended,
                   first, qvars, evars>>

\* yield cache[i]; i += 1 -- the occurrence passes through the rule set's
\* exdate filter and, when it is kept, through one turn of between's loop.
Yield(t) ==
    /\ pc[t] = "yield"
    /\ idx' = [idx EXCEPT ![t] = idx[t] + 1]
    /\ LET x == cache[idx[t] + 1]
           r == BetweenStep(x, args[t], started[t], l[t])
       IN  IF Excluded(x)
           THEN /\ pc' = [pc EXCEPT ![t] = "next"]
                /\ UNCHANGED <<started, l>>
           ELSE /\ started' = [started EXCEPT ![t] = r.started]
                /\ l' = [l EXCEPT ![t] = r.l]
                /\ pc' = [pc EXCEPT ![t] = IF r.brk THEN "done" ELSE "next"]
    /\ UNCHANGED <<dtstart, cache, gen, lock, args, fill, item, extended, first,
                   qvars, evars>>

\* return l, the caller being done with the result
Return(t) ==
    /\ pc[t] = "done"
    /\ pc' = [pc EXCEPT ![t] = "idle"]
    /\ args' = [args EXCEPT ![t] = None]
    /\ idx' = [idx EXCEPT ![t] = 0]
    /\ started' = [started EXCEPT ![t] = FALSE]
    /\ l' = [l EXCEPT ![t] = <<>>]
    /\ extended' = [extended EXCEPT ![t] = FALSE]
    /\ first' = None
    /\ UNCHANGED <<dtstart, cache, gen, lock, fill, item, qvars, evars>>

\* __main__: the same traversal again, with the same (after, before)
Repeat(t) ==
    /\ pc[t] = "done"
    /\ first = None
    /\ first' = [l |-> l[t], cache |-> cache]
    /\ idx' = [idx EXCEPT ![t] = 0]
    /\ started' = [started EXCEPT ![t] = FALSE]
    /\ l' = [l EXCEPT ![t] = <<>>]
    /\ extended' = [extended EXCEPT ![t] = FALSE]
    /\ pc' = [pc EXCEPT ![t] = "next"]
    /\ UNCHANGED <<dtstart, cache, gen, lock, args, fill, item, qvars, evars>>

Step(t) ==
    \/ CacheCheck(t)
    \/ Acquire(t)
    \/ Fetch(t)
    \/ AppendItem(t)
    \/ Release(t)
    \/ Yield(t)

\* One caller at a time
Next ==
    \/ Call(1, Queries)
    \/ Step(1)
    \/ Return(1)
    \/ Repeat(1)

Spec == Init /\ [][Next]_vars

\* The scheduler runs a caller that can take a step
FairSpec == Spec /\ WF_vars(Step(1))

\* Two callers share the module-level rule and rule set
NextConc ==
    \E t \in Threads :
        \/ Call(t, ConcQueries)
        \/ Step(t)
        \/ Return(t)

SpecConc == InitConc /\ [][NextConc]_vars

---------------------------------------------------------------------------
(* Quarter utilities *)

get_quarter(dt) ==
    LET quarters == dt.year * 4
        month == dt.month
    IN  IF month <= 3 THEN quarters + 1
        ELSE IF month <= 6 THEN quarters + 2
        ELSE IF month <= 9 THEN quarters + 3
        ELSE quarters + 4

\* datetime(year, month, day, hour, minute, tzinfo=pytz.utc)
datetime(y, mo, d, h, mi) == [year |-> y, month |-> mo, day |-> d, hour |-> h, minute |-> mi]

\* "/" on two ints is floor division (the module is Python 2)
dates_of_quarter(quarter_num) ==
    LET year == quarter_num \div 4
        quarter == IF quarter_num % 4 = 0 THEN 4 ELSE quarter_num % 4
    IN  IF quarter = 1
        THEN [start |-> datetime(year, 1, 1, 0, 0), end |-> datetime(year, 3, 31, 23, 59)]
        ELSE IF quarter = 2
        THEN [start |-> datetime(year, 4, 1, 0, 0), end |-> datetime(year, 6, 30, 23, 59)]
        ELSE IF quarter = 3
        THEN [start |-> datetime(year, 7, 1, 0, 0), end |-> datetime(year, 9, 30, 23, 59)]
        ELSE [start |-> datetime(year, 10, 1, 0, 0), end |-> datetime(year, 12, 31, 23, 59)]

Years == 2007 .. 2007 + YearSpan

QInit ==
    /\ qdt \in { datetime(y, mo, d, 12, 30) : y \in Years, mo \in 1 .. 12, d \in {1, 28} }
    /\ qnum = None
    /\ qdates = None

GetQuarter ==
    /\ qdt # None
    /\ qnum = None
    /\ qnum' = <<get_quarter(qdt)>>
    /\ UNCHANGED <<qdt, qdates, calvars, evars>>

DatesOfQuarter ==
    /\ qnum # None
    /\ qdates = None
    /\ qdates' = dates_of_quarter(qnum[1])
    /\ UNCHANGED <<qdt, qnum, calvars, evars>>

InitQuarter == CalInit /\ dtstart = DT(0, 0) /\ QInit /\ EIdle

NextQuarter == GetQuarter \/ DatesOfQuarter

SpecQuarter == InitQuarter /\ [][NextQuarter]_vars

---------------------------------------------------------------------------
(* Epoch utilities *)

(* A float is a Python float, an IEEE 754 double: zero, or 53 bits m (most    *)
(* significant first, m[1] = 1) and the exponent e of its last bit, the value *)
(* being m read in base two times 2^e.  Operations round to nearest, ties to  *)
(* even.                                                                      *)
MantissaBits == 53
MicrosPerSecond == 1000000

Zero == [m |-> <<>>, e |-> 0]

\* The number of bits of n, and its bits, most significant first
BitLength(n) == CHOOSE k \in 0 .. 31 : n < 2 ^ k /\ (k = 0 \/ n >= 2 ^ (k - 1))

Bits(n, width) == [i \in 1 .. width |-> (n \div 2 ^ (width - i)) % 2]

BitsOf(n) == Bits(n, BitLength(n))

\* The number that bits (fewer than 32 of them) spell
RECURSIVE IntOf(_)
IntOf(bits) ==
    IF Len(bits) = 0 THEN 0
    ELSE IF Len(bits) = 1 THEN bits[1]
    ELSE LET h == Len(bits) \div 2
         IN  IntOf(SubSeq(bits, 1, h)) * 2 ^ (Len(bits) - h)
                 + IntOf(SubSeq(bits, h + 1, Len(bits)))

\* bits + 1; a carry out of the first place gives one more bit
Incr(bits) ==
    IF \A i \in 1 .. Len(bits) : bits[i] = 1
    THEN <<1>> \o [i \in 1 .. Len(bits) |-> 0]
    ELSE LET k == CHOOSE j \in 1 .. Len(bits) :
                      bits[j] = 0 /\ \A i \in j + 1 .. Len(bits) : bits[i] = 1
         IN  [i \in 1 .. Len(bits) |-> IF i < k THEN bits[i] ELSE IF i = k THEN 1 ELSE 0]

\* Round to nearest, ties to even: stream holds the exact bits from the first
\* 1 on, pointEnd is the exponent of its last bit, sticky tells whether
\* anything non-zero follows the stream.
RoundNearestEven(stream, pointEnd, sticky) ==
    IF Len(stream) <= MantissaBits
    THEN [m |-> stream \o [i \in 1 .. MantissaBits - Len(stream) |-> 0],
          e |-> pointEnd - (MantissaBits - Len(stream))]
    ELSE LET kept == SubSeq(stream, 1, MantissaBits)
             e == pointEnd + (Len(stream) - MantissaBits)
             guard == stream[MantissaBits + 1] = 1
             rest == sticky \/ \E i \in MantissaBits + 2 .. Len(stream) : stream[i] = 1
             up == Incr(kept)
         IN  IF guard /\ (rest \/ kept[MantissaBits] = 1)
             THEN IF Len(up) > MantissaBits
                  THEN [m |-> SubSeq(up, 1, MantissaBits), e |-> e + 1]
                  ELSE [m |-> up, e |-> e]
             ELSE [m |-> kept, e |-> e]

\* The bits from the first 1 on
Normalized(stream) ==
    LET k == CHOOSE j \in 1 .. Len(stream) :
                 stream[j] = 1 /\ \A i \in 1 .. j - 1 : stream[i] = 0
    IN  SubSeq(stream, k, Len(stream))

\* Long division of rem / d, ten bits of the quotient at a time:
\* [bits, rem] after the given number of rounds
RECURSIVE DivBits(_, _, _)
DivBits(rem, d, rounds) ==
    IF rounds = 0 THEN [bits |-> <<>>, rem |-> rem]
    ELSE LET head == Bits((rem * 1024) \div d, 10)
             tail == DivBits((rem * 1024) % d, d, rounds - 1)
         IN  [bits |-> head \o tail.bits, rem |-> tail.rem]

\* int / int with true division: the double nearest to n / d, for d < 2^20.
\* Eight rounds give 80 bits after the point: up to 20 zeros, and more than
\* 53 bits from the first 1 on.
TrueDivide(n, d) ==
    IF n = 0 THEN Zero
    ELSE LET frac == DivBits(n % d, d, 8)
         IN  RoundNearestEven(Normalized(BitsOf(n \div d) \o frac.bits),
                              0 - Len(frac.bits), frac.rem # 0)

\* float * k for an int k < 1024: the double nearest to the exact product,
\* the mantissa being multiplied in three parts of 18, 18 and 17 bits
Multiply(x, k) ==
    IF x.m = <<>> THEN Zero
    ELSE LET lo == IntOf(SubSeq(x.m, 37, 53)) * k
             mid == IntOf(SubSeq(x.m, 19, 36)) * k + lo \div 2 ^ 17
             hi == IntOf(SubSeq(x.m, 1, 18)) * k + mid \div 2 ^ 18
         IN  RoundNearestEven(BitsOf(hi) \o Bits(mid % 2 ^ 18, 18) \o Bits(lo % 2 ^ 17, 17),
                              x.e, FALSE)

\* int(x) truncates toward zero; the values here are below 2^31, so x.e < 0
int(x) ==
    IF Len(x.m) + x.e <= 0 THEN 0 ELSE IntOf(SubSeq(x.m, 1, Len(x.m) + x.e))

\* int(round(x)): to the nearest int, half away from zero
int_rounded(x) ==
    IF x.m = <<>> \/ Len(x.m) + x.e < 0 THEN 0
    ELSE int(x) + x.m[Len(x.m) + x.e + 1]

\* delta.total_seconds(): the microseconds of the timedelta over 10**6
total_seconds(delta) == TrueDivide(delta, MicrosPerSecond)

\* A datetime of the epoch utilities is its distance from UNIX_EPOCH in
\* microseconds, which is what utc_datetime - UNIX_EPOCH holds.
EPOCH_Rounded(utc_datetime) == int_rounded(Multiply(total_seconds(utc_datetime), 1000))

EPOCH(utc_datetime) ==
    LET delta == utc_datetime
        seconds == total_seconds(delta)
        ms_ == Multiply(seconds, 1000)
    IN  int(ms_)

\* timedelta(milliseconds=...) and datetime + timedelta are exact
UN_EPOCH(ms_since_epoch) == ms_since_epoch * 1000

EInit ==
    /\ ts \in { <<s * MicrosPerSecond + m * 1000 + u>> :
                    s \in 0 .. MaxSec, m \in 0 .. MaxMs, u \in {0, 1, 500, 999} }
    /\ ms = None
    /\ back = None

ToEpoch ==
    /\ ts # None
    /\ ms = None
    /\ ms' = <<EPOCH(ts[1])>>
    /\ UNCHANGED <<ts, back, calvars, qvars>>

FromEpoch ==
    /\ ms # None
    /\ back = None
    /\ back' = <<UN_EPOCH(ms[1])>>
    /\ UNCHANGED <<ts, ms, calvars, qvars>>

InitEpoch == CalInit /\ dtstart = DT(0, 0) /\ QIdle /\ EInit

NextEpoch == ToEpoch \/ FromEpoch

SpecEpoch == InitEpoch /\ [][NextEpoch]_vars

---------------------------------------------------------------------------
(* What the rule and the rule set denote *)

\* An occurrence of the rule: a weekday at or after dtstart, at dtstart's time of day
RuleOcc(x) ==
    /\ Tod(x) = Tod(dtstart)
    /\ Day(x) >= Day(dtstart)
    /\ weekday(x) \in WEEKDAYS

\* An occurrence of the rule set: one of the rule that equals no exdate
RsOcc(x) == RuleOcc(x) /\ x \notin HOLIDAYS

\* A calendar date of the holiday table, whatever the time of day
HolidayDate(x) == DT(Day(x), 0) \in HOLIDAYS

Window == 0 .. DT(FarDay, TicksPerDay - 1)

Min(S) == CHOOSE m \in S : \A y \in S : m <= y

RECURSIVE Asc(_)
Asc(S) == IF S = {} THEN <<>> ELSE <<Min(S)>> \o Asc(S \ {Min(S)})

Range(s) == { s[i] : i \in 1 .. Len(s) }

Ascending(s) == \A i \in 1 .. Len(s) - 1 : s[i] < s[i + 1]

---------------------------------------------------------------------------
(* Claims about trading_days with one caller *)

\* C1: with after <= before the result is exactly the ascending sequence of
\* the dates of the window that are Monday-Friday and not in the holiday
\* table, each once, none omitted, no Saturday or Sunday.  Read by calendar
\* date, and only for the dates at or after the rule's anchor and strictly
\* inside the window.
C1_ExactTradingDays ==
    (pc[1] = "done" /\ args[1].after <= args[1].before) =>
        /\ Ascending([i \in 1 .. Len(l[1]) |-> Day(l[1][i])])
        /\ \A x \in Range(l[1]) : weekday(x) \in WEEKDAYS /\ ~HolidayDate(x)
        /\ \A d \in Day(args[1].after) + 1 .. Day(args[1].before) - 1 :
              (d >= Day(dtstart) /\ d % 7 \in WEEKDAYS /\ DT(d, 0) \notin HOLIDAYS)
                  => \E x \in Range(l[1]) : Day(x) = d

\* C2: no returned occurrence falls on a calendar date of the holiday table,
\* the comparison being by calendar date only.
C2_NoHolidayReturned ==
    \A t \in Threads : \A x \in Range(l[t]) : ~HolidayDate(x)

C4_RepeatIdentical ==
    (pc[1] = "done" /\ first # None) =>
        /\ l[1] = first.l
        /\ cache = first.cache
        /\ ~extended[1]

\* The second of two identical calls ended, the first having grown the cache
\* twice and both having returned three days or more.
C4_Witness ==
    /\ pc[1] = "done"
    /\ first # None
    /\ Len(first.l) >= 3
    /\ Len(first.cache) = 2 * CacheBatch

\* C5: a query with after later than before returns the empty sequence.
C5_ReversedEmpty ==
    (pc[1] = "done" /\ args[1].after > args[1].before) => l[1] = <<>>

\* A reversed query ended, with an occurrence of the rule set between its bounds.
C5_Witness ==
    /\ pc[1] = "done"
    /\ args[1].after > args[1].before
    /\ \E x \in Range(cache) : RsOcc(x) /\ args[1].before < x /\ x < args[1].after
    /\ l[1] = <<>>

\* C8: the occurrence cache is append-only across queries, strictly
\* increasing, and holds no weekend date.
C8_CacheAppendOnly ==
    [][ /\ Len(cache) <= Len(cache')
        /\ SubSeq(cache', 1, Len(cache)) = cache
        /\ Ascending(cache')
        /\ \A x \in Range(cache') : weekday(x) \in WEEKDAYS ]_vars

\* The cache grew twice, across a weekend, and the caller is between queries.
C8_Witness ==
    /\ pc[1] = "idle"
    /\ Len(cache) = 2 * CacheBatch
    /\ \E i \in 1 .. Len(cache) - 1 : Day(cache[i + 1]) = Day(cache[i]) + 3

\* The candidates a query may examine: one per day from the anchor to before,
\* and the first one beyond before.
SpanBound(q) ==
    (IF Day(q.before) >= Day(dtstart) THEN Day(q.before) - Day(dtstart) + 1 ELSE 0) + 1

\* The candidates the rule set has handed to between in the call of caller t
Examined(t) == { i \in 1 .. idx[t] : ~Excluded(cache[i]) }

\* C9: every call ends; between examines no more candidates than the span
\* from the anchor to before allows, stopping at the first one beyond before,
\* and the call grows the cache by less than one batch beyond the candidates
\* and the exdates it passed.
C9_Terminates ==
    /\ [](pc[1] # "idle" =>
            /\ Cardinality(Examined(1)) <= SpanBound(args[1])
            /\ extended[1] =>
                  Len(cache) < SpanBound(args[1]) + Cardinality(HOLIDAYS) + CacheBatch)
    /\ [](pc[1] = "next" => <>(pc[1] = "done"))

\* A call ended at the first candidate beyond before, having examined a whole
\* batch and grown the cache.
C9_Witness ==
    /\ pc[1] = "done"
    /\ extended[1]
    /\ idx[1] > CacheBatch
    /\ cache[idx[1]] > args[1].before
    /\ \A i \in 1 .. idx[1] - 1 : cache[i] <= args[1].before

---------------------------------------------------------------------------
(* Claims about trading_days with two callers *)

\* C10: under every interleaving of two callers the cache holds the rule's
\* occurrences from the anchor on, each once and none missing, and each
\* caller's result is the one its query has when run alone.
C10_ConcurrentCacheIntact ==
    /\ Ascending(cache)
    /\ \A x \in Range(cache) : RuleOcc(x)
    /\ cache # <<>> =>
          \A x \in dtstart .. cache[Len(cache)] : RuleOcc(x) => x \in Range(cache)
    /\ \A t \in Threads :
          pc[t] = "done" =>
              LET q == args[t]
                  lo == IF q.inc THEN q.after ELSE q.after + 1
                  hi == IF q.inc THEN q.before ELSE q.before - 1
              IN  l[t] = Asc({ x \in lo .. hi : RsOcc(x) })

\* Both callers grew the cache in the calls they have just ended.
C10_Witness ==
    /\ \A t \in Threads : pc[t] = "done" /\ extended[t] /\ Len(l[t]) > 0
    /\ Len(cache) = 2 * CacheBatch

---------------------------------------------------------------------------
(* Claims about the epoch utilities and the quarter utilities *)

C7_QuarterInverse ==
    qdates # None =>
        /\ get_quarter(qdates.start) = qnum[1]
        /\ get_quarter(qdates.end) = qnum[1]
        /\ qnum[1] % 4 = 0 =>
              /\ qdates.start = datetime(qnum[1] \div 4 - 1, 10, 1, 0, 0)
              /\ qdates.end = datetime(qnum[1] \div 4 - 1, 12, 31, 23, 59)

====
